---- MODULE Spec2Model ----
(***************************************************************************)
(* Tier 0 watchdog daemon of overstory: runDaemonTick, its escalation      *)
(* controller executeEscalationAction, the registry accessors loadSessions *)
(* and saveSessions, and the scheduler startDaemon.                        *)
(*                                                                         *)
(* Time is counted in abstract units; one await of the source is one       *)
(* action of the model (the code between two awaits runs atomically on the *)
(* JavaScript event loop).                                                 *)
(***************************************************************************)
EXTENDS Integers, Sequences, FiniteSets, TLC

\* ---------------------------------------------------------------- bounds
NumSessions == 2
MaxTime == 8
MaxInFlight == 2
MaxActivity == 1
MaxDaemonTime == 6
MaxRegistry == 2

\* ------------------------------------------------------ program constants
MAX_ESCALATION_LEVEL == 3
nudgeIntervalMs == 2
staleThresholdMs == 1
zombieThresholdMs == 8
intervalMs == 2
Null == -1
Undefined == -2

Sessions == 1..NumSessions
Ticks == 1..MaxInFlight
States == {"booting", "working", "zombie", "completed"}

VARIABLES
    now,          \* Date.now()
    alive,        \* tmux backend: is the session of record s alive
    disk,         \* sessions.json: sequence of AgentSession records
    tier1Enabled, \* options.tier1Enabled
    tick,         \* per runDaemonTick invocation: pc, sessions, i, updated, tmuxAlive
    obs,          \* per invocation: what the collaborators and the observer saw
    runs,         \* ticks started since the clock, liveness or lastActivity last changed
    lastTriage,   \* outcome of the latest triage call per session in that window
    sameTriage,   \* every triage call of the current tick repeated the latest outcome
    triageThrew,  \* some triage call of that window was rejected
    daemon,       \* startDaemon: started, interval handle active, next firing time
    activities,   \* progress reports made by upstream instrumentation so far
    nudgeCall     \* one call of nudgeAgent: its arguments, position and result

vars == <<now, alive, disk, tier1Enabled, tick, obs, runs, lastTriage, sameTriage,
          triageThrew, daemon, activities, nudgeCall>>

Min(a, b) == IF a < b THEN a ELSE b

\* ------------------------------------------------------------ health.ts
\* evaluateHealth(session, tmuxAlive, thresholds): the verdict's action
evaluateHealth(session, tmuxAlive, clock) ==
    IF session.state = "zombie"
    THEN [action |-> IF tmuxAlive THEN "investigate" ELSE "none"]
    ELSE IF ~tmuxAlive
    THEN [action |-> "terminate"]
    ELSE IF clock - session.lastActivity >= zombieThresholdMs
    THEN [action |-> "terminate"]
    ELSE IF clock - session.lastActivity >= staleThresholdMs
    THEN [action |-> "escalate"]
    ELSE [action |-> "none"]

\* transitionState(currentState, check)
transitionState(currentState, check) ==
    IF check.action = "terminate" THEN "zombie" ELSE currentState

\* ------------------------------------------------- runDaemonTick pieces
\* if (session.state === "completed") continue;
SkipSession_NoSkip(session) == FALSE
SkipSession(session) == session.state = "completed"

\* if (check.action === "terminate")
IsTerminateBranch_Investigate(check) == check.action \in {"terminate", "investigate"}
IsTerminateBranch(check) == check.action = "terminate"

\* else if (check.action === "investigate")
IsInvestigateBranch(check) == check.action = "investigate"

\* else if (check.action === "escalate")
IsEscalateBranch(check) == check.action = "escalate"

\* else if (check.action === "none" && session.stalledSince !== null)
IsRecoverBranch_Always(check, session) == check.action = "none"
IsRecoverBranch(check, session) ==
    check.action = "none" /\ session.stalledSince # Null

\* session.state = "zombie"; escalationLevel = 0; stalledSince = null
TerminateRecord_KeepLevel(session) ==
    [session EXCEPT !.state = "zombie", !.stalledSince = Null]
TerminateRecord(session) ==
    [session EXCEPT !.state = "zombie", !.escalationLevel = 0, !.stalledSince = Null]

\* session.stalledSince = null; session.escalationLevel = 0
RecoverRecord_Working(session) ==
    [session EXCEPT !.state = "working", !.stalledSince = Null, !.escalationLevel = 0]
RecoverRecord(session) ==
    [session EXCEPT !.stalledSince = Null, !.escalationLevel = 0]

\* if (session.stalledSince === null) { stalledSince = now; escalationLevel = 0 }
StartStall_Touch(session, clock) ==
    IF session.stalledSince = Null
    THEN [session EXCEPT !.stalledSince = clock, !.escalationLevel = 0,
                         !.lastActivity = clock]
    ELSE session
StartStall(session, clock) ==
    IF session.stalledSince = Null
    THEN [session EXCEPT !.stalledSince = clock, !.escalationLevel = 0]
    ELSE session

\* Math.min(Math.floor(stalledMs / nudgeIntervalMs), MAX_ESCALATION_LEVEL)
expectedLevel_PerTick(session, stalledMs) ==
    Min(IF stalledMs >= nudgeIntervalMs THEN session.escalationLevel + 1 ELSE 0,
        MAX_ESCALATION_LEVEL)
expectedLevel(session, stalledMs) ==
    Min(stalledMs \div nudgeIntervalMs, MAX_ESCALATION_LEVEL)

\* if (expectedLevel > session.escalationLevel)
ShouldRaise_Geq(expected, level) == expected >= level
ShouldRaise(expected, level) == expected > level

\* case 2: if (!tier1Enabled) return { terminated: false, stateChanged: false }
SkipTriage_Never(enabled) == FALSE
SkipTriage(enabled) == ~enabled

\* if (updated) await saveSessions(...)
ShouldSave(updated) == updated

\* loadSessions: the parsed array with the escalation fields backfilled
loadSessions(file) ==
    [s \in DOMAIN file |->
        [file[s] EXCEPT
            !.escalationLevel = IF @ = Undefined THEN 0 ELSE @,
            !.stalledSince = IF @ = Undefined THEN Null ELSE @]]

\* ----------------------------------------------------------- bookkeeping
Zeros == [s \in Sessions |-> 0]

IdleTick == [pc |-> "idle", sessions |-> <<>>, i |-> 0, updated |-> FALSE,
             tmuxAlive |-> FALSE]

BlankObs == [startDisk |-> <<>>,
             probe |-> [s \in Sessions |-> "unprobed"],
             observer |-> Zeros, kills |-> Zeros, nudges |-> Zeros,
             triages |-> Zeros, writes |-> 0,
             triageArg |-> [s \in Sessions |-> Null],
             action |-> [s \in Sessions |-> "unseen"],
             level |-> [s \in Sessions |-> Null],
             stalledMs |-> [s \in Sessions |-> Null]]

NoTriage == [s \in Sessions |-> "nocall"]

InFlight(t) == tick[t].pc \notin {"idle"}
Ended(t) == tick[t].pc \in {"done", "failed"}

\* index of the next record the for-loop does not skip, 0 when the loop ends
NextIndex(sessions, from) ==
    LET cand == {j \in from..Len(sessions) : ~SkipSession(sessions[j])}
    IN IF cand = {} THEN 0 ELSE CHOOSE j \in cand : \A k \in cand : j <= k

\* the loop moves on from record s, now holding `session`
Resume(tk, s, session, updated) ==
    LET ss == [tk.sessions EXCEPT ![s] = session]
        j == NextIndex(ss, s + 1)
    IN [tk EXCEPT !.sessions = ss, !.updated = updated, !.i = j,
                  !.tmuxAlive = FALSE,
                  !.pc = IF j # 0 THEN "probe"
                         ELSE IF ShouldSave(updated) THEN "save" ELSE "done"]

\* the loop suspends at an await for record s
Await(tk, s, session, updated, tmuxAlive, pc) ==
    [tk EXCEPT !.sessions[s] = session, !.updated = updated,
               !.tmuxAlive = tmuxAlive, !.pc = pc]

\* ------------------------------------------------------------------ Init
\* nudgeAgent has not been called
NoNudgeCall ==
    [pc |-> "idle", file |-> [exists |-> FALSE, sessions |-> <<>>],
     agentName |-> "", tmuxAlive |-> FALSE, target |-> 0, probes |-> 0,
     sent |-> 0, result |-> [delivered |-> FALSE, reason |-> ""]]

\* no daemon started: no interval armed; stopped and caught record that
\* stop() was called and that a .catch handler has discarded a rejection
NoDaemon ==
    [started |-> FALSE, active |-> FALSE, nextFire |-> 0, stopped |-> FALSE,
     caught |-> FALSE]

InitRecord(s, st) ==
    [id |-> s, agentName |-> s, state |-> st, lastActivity |-> 0,
     escalationLevel |-> 0, stalledSince |-> Null]

InitCommon ==
    /\ now = 0
    /\ alive \in [Sessions -> BOOLEAN]
    /\ \E st \in [Sessions -> States] : disk = [s \in Sessions |-> InitRecord(s, st[s])]
    /\ tier1Enabled \in BOOLEAN
    /\ tick = [t \in Ticks |-> IdleTick]
    /\ obs = [t \in Ticks |-> BlankObs]
    /\ runs = 0
    /\ lastTriage = NoTriage
    /\ sameTriage = TRUE
    /\ triageThrew = FALSE
    /\ daemon = NoDaemon
    /\ activities = 0
    /\ nudgeCall = NoNudgeCall

Init == InitCommon

\* ------------------------------------------------------ runDaemonTick
\* the call: everything up to the first await (inside loadSessions)
TickStart(t) ==
    /\ tick[t].pc = "idle"
    /\ tick' = [tick EXCEPT ![t] = [IdleTick EXCEPT !.pc = "load"]]
    /\ obs' = [obs EXCEPT ![t] = [BlankObs EXCEPT !.startDisk = disk]]

\* const sessions = await loadSessions(sessionsPath); let updated = false;
\* then the loop up to its first await
LoadSessions(t) ==
    /\ tick[t].pc = "load"
    /\ LET ss == loadSessions(disk)
           j == NextIndex(ss, 1)
       IN tick' = [tick EXCEPT ![t] =
              [@ EXCEPT !.sessions = ss, !.updated = FALSE, !.i = j,
                        !.pc = IF j # 0 THEN "probe"
                               ELSE IF ShouldSave(FALSE) THEN "save" ELSE "done"]]
    /\ UNCHANGED <<nudgeCall, now, alive, disk, tier1Enabled, obs, runs, lastTriage, sameTriage, triageThrew, daemon, activities>>

\* await tmux.isSessionAlive(...) returns; the loop body runs to its next await
ProbeReturn(t) ==
    /\ tick[t].pc = "probe"
    /\ LET s == tick[t].i
           session == tick[t].sessions[s]
           tmuxAlive == alive[s]
           check == evaluateHealth(session, tmuxAlive, now)
           newState == transitionState(session.state, check)
           moved == [session EXCEPT !.state = newState]
           upd0 == tick[t].updated \/ (newState # session.state)
           o1 == [obs[t] EXCEPT !.probe[s] = IF tmuxAlive THEN "alive" ELSE "dead",
                                !.observer[s] = @ + 1,
                                !.action[s] = check.action]
           \* escalate branch
           started == StartStall(moved, now)
           upd1 == upd0 \/ (moved.stalledSince = Null)
           stalledMs == now - started.stalledSince
           expected == expectedLevel(started, stalledMs)
           raise == ShouldRaise(expected, started.escalationLevel)
           raised == IF raise THEN [started EXCEPT !.escalationLevel = expected]
                     ELSE started
           upd2 == upd1 \/ raise
           o2 == [o1 EXCEPT !.level[s] = raised.escalationLevel,
                            !.stalledMs[s] = stalledMs]
       IN IF IsTerminateBranch(check)
          THEN IF tmuxAlive
               THEN /\ tick' = [tick EXCEPT ![t] = Await(@, s, moved, upd0, tmuxAlive, "kill")]
                    /\ obs' = [obs EXCEPT ![t] = o1]
               ELSE /\ tick' = [tick EXCEPT ![t] = Resume(@, s, TerminateRecord(moved), TRUE)]
                    /\ obs' = [obs EXCEPT ![t] = o1]
          ELSE IF IsInvestigateBranch(check)
          THEN /\ tick' = [tick EXCEPT ![t] = Resume(@, s, moved, upd0)]
               /\ obs' = [obs EXCEPT ![t] = o1]
          ELSE IF IsEscalateBranch(check)
          THEN /\ obs' = [obs EXCEPT ![t] = o2]
               /\ tick' = [tick EXCEPT ![t] =
                    \* executeEscalationAction: switch (session.escalationLevel)
                    IF raised.escalationLevel = 0
                    THEN Resume(@, s, raised, upd2)
                    ELSE IF raised.escalationLevel = 1
                    THEN Await(@, s, raised, upd2, tmuxAlive, "nudge")
                    ELSE IF raised.escalationLevel = 2
                    THEN IF SkipTriage(tier1Enabled)
                         THEN Resume(@, s, raised, upd2)
                         ELSE Await(@, s, raised, upd2, tmuxAlive, "triage")
                    ELSE IF tmuxAlive
                         THEN Await(@, s, raised, upd2, tmuxAlive, "kill")
                         ELSE Resume(@, s, TerminateRecord(raised), TRUE)]
          ELSE IF IsRecoverBranch(check, moved)
          THEN /\ tick' = [tick EXCEPT ![t] = Resume(@, s, RecoverRecord(moved), TRUE)]
               /\ obs' = [obs EXCEPT ![t] = o1]
          ELSE /\ tick' = [tick EXCEPT ![t] = Resume(@, s, moved, upd0)]
               /\ obs' = [obs EXCEPT ![t] = o1]
    /\ UNCHANGED <<nudgeCall, now, alive, disk, tier1Enabled, runs, lastTriage, sameTriage, triageThrew, daemon, activities>>

\* await tmux.killSession(...) settles (resolved or rejected and swallowed);
\* all three call sites go on to state = zombie, level = 0, stalledSince = null
KillReturn(t) ==
    /\ tick[t].pc = "kill"
    /\ LET s == tick[t].i
           session == tick[t].sessions[s]
       IN /\ \E ok \in BOOLEAN :
                alive' = IF ok THEN [alive EXCEPT ![s] = FALSE] ELSE alive
          /\ tick' = [tick EXCEPT ![t] = Resume(@, s, TerminateRecord(session), TRUE)]
          /\ obs' = [obs EXCEPT ![t].kills[s] = @ + 1]
    /\ UNCHANGED <<nudgeCall, now, disk, tier1Enabled, runs, lastTriage, sameTriage, triageThrew, daemon, activities>>

\* await nudge(...) settles (delivered, not delivered, or rejected and swallowed)
NudgeReturn(t) ==
    /\ tick[t].pc = "nudge"
    /\ LET s == tick[t].i
           session == tick[t].sessions[s]
       IN /\ \E outcome \in {"delivered", "notDelivered", "throws"} :
                tick' = [tick EXCEPT ![t] = Resume(@, s, session, tick[t].updated)]
          /\ obs' = [obs EXCEPT ![t].nudges[s] = @ + 1]
    /\ UNCHANGED <<nudgeCall, now, alive, disk, tier1Enabled, runs, lastTriage, sameTriage, triageThrew, daemon, activities>>

\* const verdict = await triage(...) settles; a rejection is not caught
TriageReturn(t) ==
    /\ tick[t].pc = "triage"
    /\ LET s == tick[t].i
           session == tick[t].sessions[s]
       IN \E verdict \in {"retry", "terminate", "extend", "throws"} :
            /\ tick' = [tick EXCEPT ![t] =
                 IF verdict = "throws"
                 THEN [@ EXCEPT !.pc = "failed"]
                 ELSE IF verdict = "terminate"
                 THEN IF tick[t].tmuxAlive
                      THEN [@ EXCEPT !.pc = "kill"]
                      ELSE Resume(@, s, TerminateRecord(session), TRUE)
                 ELSE IF verdict = "retry"
                 THEN [@ EXCEPT !.pc = "nudge"]
                 ELSE Resume(@, s, session, tick[t].updated)]
            /\ obs' = [obs EXCEPT ![t].triages[s] = @ + 1,
                                  ![t].triageArg[s] = session.lastActivity]
            /\ sameTriage' = IF daemon.started THEN sameTriage
                              ELSE sameTriage /\ lastTriage[s] \in {"nocall", verdict}
            /\ lastTriage' = IF daemon.started THEN lastTriage
                              ELSE [lastTriage EXCEPT ![s] = verdict]
            /\ triageThrew' = IF daemon.started THEN triageThrew
                               ELSE triageThrew \/ verdict = "throws"
    /\ UNCHANGED <<nudgeCall, now, alive, disk, tier1Enabled, runs, daemon, activities>>

\* await saveSessions(sessionsPath, sessions)
SaveSessions(t) ==
    /\ tick[t].pc = "save"
    /\ disk' = tick[t].sessions
    /\ tick' = [tick EXCEPT ![t].pc = "done"]
    /\ obs' = [obs EXCEPT ![t].writes = @ + 1]
    /\ UNCHANGED <<nudgeCall, now, alive, tier1Enabled, runs, lastTriage, sameTriage, triageThrew, daemon, activities>>

\* runDaemonTick(options).catch(() => {}): a rejection is discarded and the
\* interval stays armed
CatchTick_Crash(d, rejected) ==
    IF rejected THEN [d EXCEPT !.caught = TRUE, !.active = FALSE] ELSE d
CatchTick(d, rejected) ==
    IF rejected THEN [d EXCEPT !.caught = TRUE] ELSE d

\* the promise of runDaemonTick settles and its caller goes on: the daemon's
\* .catch handler, or the caller that awaited the tick
TickReturn(t) ==
    /\ Ended(t)
    /\ tick' = [tick EXCEPT ![t] = IdleTick]
    /\ obs' = [obs EXCEPT ![t] = BlankObs]
    /\ daemon' = IF daemon.started
                 THEN CatchTick(daemon, tick[t].pc = "failed")
                 ELSE daemon
    /\ UNCHANGED <<nudgeCall, now, alive, disk, tier1Enabled, runs, lastTriage, sameTriage, triageThrew, activities>>

\* ------------------------------------------- ticks run one after another
Quiet == \A t \in Ticks : tick[t].pc = "idle"

\* await runDaemonTick(options), called again only after it has settled
CallTick ==
    /\ Quiet
    /\ TickStart(1)
    /\ runs' = Min(runs + 1, 2)
    /\ sameTriage' = TRUE
    /\ UNCHANGED <<nudgeCall, now, alive, disk, tier1Enabled, lastTriage, triageThrew, daemon, activities>>

\* the wall clock advances between ticks
Advance ==
    /\ Quiet
    /\ now < MaxTime
    /\ now' = now + 1
    /\ runs' = 0 /\ lastTriage' = NoTriage /\ sameTriage' = TRUE /\ triageThrew' = FALSE
    /\ UNCHANGED <<nudgeCall, alive, disk, tier1Enabled, tick, obs, daemon, activities>>

\* a tmux session dies on its own
Die(s) ==
    /\ Quiet
    /\ alive[s]
    /\ alive' = [alive EXCEPT ![s] = FALSE]
    /\ runs' = 0 /\ lastTriage' = NoTriage /\ sameTriage' = TRUE /\ triageThrew' = FALSE
    /\ UNCHANGED <<nudgeCall, now, disk, tier1Enabled, tick, obs, daemon, activities>>

\* upstream instrumentation records progress of a running agent
Activity(s) ==
    /\ Quiet
    /\ alive[s]
    /\ disk[s].state \in {"booting", "working"}
    /\ disk[s].lastActivity < now
    /\ activities < MaxActivity
    /\ activities' = activities + 1
    /\ disk' = [disk EXCEPT ![s].lastActivity = now]
    /\ runs' = 0 /\ lastTriage' = NoTriage /\ sameTriage' = TRUE /\ triageThrew' = FALSE
    /\ UNCHANGED <<nudgeCall, now, alive, tier1Enabled, tick, obs, daemon>>

Next ==
    \/ CallTick
    \/ LoadSessions(1)
    \/ ProbeReturn(1)
    \/ KillReturn(1)
    \/ NudgeReturn(1)
    \/ TriageReturn(1)
    \/ SaveSessions(1)
    \/ TickReturn(1)
    \/ Advance
    \/ \E s \in Sessions : Die(s)
    \/ \E s \in Sessions : Activity(s)

Spec == Init /\ [][Next]_vars

\* ------------------------------------- one tick on an arbitrary registry
\* sessions.json as any writer may have left it, read at any time
AnyRecord(s, st, level, since) ==
    [id |-> s, agentName |-> s, state |-> st, lastActivity |-> 0,
     escalationLevel |-> level, stalledSince |-> since]

InitAny ==
    /\ now \in 0..MaxTime
    /\ alive \in [Sessions -> BOOLEAN]
    /\ \E st \in [Sessions -> States],
          level \in [Sessions -> 0..MAX_ESCALATION_LEVEL],
          since \in [Sessions -> {Null, 0}] :
            disk = [s \in Sessions |-> AnyRecord(s, st[s], level[s], since[s])]
    /\ tier1Enabled \in BOOLEAN
    /\ tick = [t \in Ticks |-> IdleTick]
    /\ obs = [t \in Ticks |-> BlankObs]
    /\ runs = 0
    /\ lastTriage = NoTriage
    /\ sameTriage = TRUE
    /\ triageThrew = FALSE
    /\ daemon = NoDaemon
    /\ activities = 0
    /\ nudgeCall = NoNudgeCall

NextAny ==
    \/ CallTick
    \/ LoadSessions(1)
    \/ ProbeReturn(1)
    \/ KillReturn(1)
    \/ NudgeReturn(1)
    \/ TriageReturn(1)
    \/ SaveSessions(1)
    \/ TickReturn(1)

SpecAny == InitAny /\ [][NextAny]_vars

\* ---------------------------------------------------------- startDaemon
\* the daemon is started on a registry with one running agent, the other
\* records being those of agents that have completed
InitDaemon ==
    /\ InitCommon
    /\ alive[1] /\ disk[1].state \in {"booting", "working"}
    /\ \A s \in Sessions \ {1} : ~alive[s] /\ disk[s].state = "completed"

\* startDaemon: the first tick is called at once, then setInterval is armed
StartDaemon ==
    /\ ~daemon.started
    /\ TickStart(1)
    /\ daemon' = [NoDaemon EXCEPT !.started = TRUE, !.active = TRUE,
                                  !.nextFire = now + intervalMs]
    /\ UNCHANGED <<nudgeCall, now, alive, disk, tier1Enabled, runs, lastTriage, sameTriage, triageThrew, activities>>

\* the setInterval callback: runDaemonTick(options).catch(...), not awaited
TimerFire(t) ==
    /\ daemon.active
    /\ now >= daemon.nextFire
    /\ \A u \in Ticks : u < t => tick[u].pc # "idle"
    /\ TickStart(t)
    /\ daemon' = [daemon EXCEPT !.nextFire = @ + intervalMs]
    /\ UNCHANGED <<nudgeCall, now, alive, disk, tier1Enabled, runs, lastTriage, sameTriage, triageThrew, activities>>

\* stop(): clearInterval(interval); clearing a cleared interval does nothing
Stop ==
    /\ daemon.started
    /\ daemon' = [daemon EXCEPT !.active = FALSE, !.stopped = TRUE]
    /\ UNCHANGED <<nudgeCall, now, alive, disk, tier1Enabled, tick, obs, runs, lastTriage, sameTriage, triageThrew,
                   activities>>

\* the wall clock advances, also while ticks are suspended at an await;
\* a due timer callback runs before the clock moves on
DaemonAdvance ==
    /\ daemon.started
    /\ now < MaxDaemonTime
    /\ daemon.active => now < daemon.nextFire
    /\ now' = now + 1
    /\ UNCHANGED <<nudgeCall, alive, disk, tier1Enabled, tick, obs, runs, lastTriage, sameTriage, triageThrew, daemon,
                   activities>>

DaemonDie(s) ==
    /\ daemon.started
    /\ alive[s]
    /\ alive' = [alive EXCEPT ![s] = FALSE]
    /\ UNCHANGED <<nudgeCall, now, disk, tier1Enabled, tick, obs, runs, lastTriage, sameTriage, triageThrew, daemon,
                   activities>>

NextDaemon ==
    \/ StartDaemon
    \/ \E t \in Ticks : TimerFire(t)
    \/ Stop
    \/ \E t \in Ticks : LoadSessions(t)
    \/ \E t \in Ticks : ProbeReturn(t)
    \/ \E t \in Ticks : KillReturn(t)
    \/ \E t \in Ticks : NudgeReturn(t)
    \/ \E t \in Ticks : TriageReturn(t)
    \/ \E t \in Ticks : SaveSessions(t)
    \/ \E t \in Ticks : TickReturn(t)
    \/ DaemonAdvance
    \/ \E s \in Sessions : DaemonDie(s)

SpecDaemon == InitDaemon /\ [][NextDaemon]_vars

\* ------------------------------------------------- commands/nudge.ts
\* nudgeAgent(projectRoot, agentName), as its tests exercise it: calls that no
\* debounce suppresses, on a registry that is missing or holds any records
AgentNames == {"test-agent", "other-agent"}
NudgeRecords == [agentName : AgentNames, state : States]
NudgeFiles ==
    {[exists |-> FALSE, sessions |-> <<>>]} \cup
    {[exists |-> TRUE, sessions |-> ss] :
        ss \in UNION {[1..n -> NudgeRecords] : n \in 0..MaxRegistry}}

\* the record nudgeAgent delivers to: the first one of that name in an active
\* state, 0 when there is none or no registry
ActiveSessionOf_AnyState(file, agentName) ==
    LET found == {i \in DOMAIN file.sessions :
                     file.sessions[i].agentName = agentName}
    IN IF ~file.exists \/ found = {} THEN 0
       ELSE CHOOSE i \in found : \A j \in found : i <= j
ActiveSessionOf(file, agentName) ==
    LET found == {i \in DOMAIN file.sessions :
                     /\ file.sessions[i].agentName = agentName
                     /\ file.sessions[i].state \in {"booting", "working"}}
    IN IF ~file.exists \/ found = {} THEN 0
       ELSE CHOOSE i \in found : \A j \in found : i <= j

InitNudge ==
    /\ now = 0
    /\ alive = [s \in Sessions |-> FALSE]
    /\ disk = [s \in Sessions |-> InitRecord(s, "completed")]
    /\ tier1Enabled = FALSE
    /\ tick = [t \in Ticks |-> IdleTick]
    /\ obs = [t \in Ticks |-> BlankObs]
    /\ runs = 0
    /\ lastTriage = NoTriage
    /\ sameTriage = TRUE
    /\ triageThrew = FALSE
    /\ daemon = NoDaemon
    /\ activities = 0
    /\ \E file \in NudgeFiles, name \in AgentNames, tmuxAlive \in BOOLEAN :
          nudgeCall = [NoNudgeCall EXCEPT !.pc = "lookup", !.file = file,
                                          !.agentName = name,
                                          !.tmuxAlive = tmuxAlive]

\* the session lookup returns
NudgeLookup ==
    /\ nudgeCall.pc = "lookup"
    /\ LET target == ActiveSessionOf(nudgeCall.file, nudgeCall.agentName)
       IN nudgeCall' =
            IF target = 0
            THEN [nudgeCall EXCEPT !.pc = "returned",
                     !.result = [delivered |-> FALSE, reason |-> "No active session"]]
            ELSE [nudgeCall EXCEPT !.pc = "probe", !.target = target]
    /\ UNCHANGED <<now, alive, disk, tier1Enabled, tick, obs, runs, lastTriage,
                   sameTriage, triageThrew, daemon, activities>>

\* the liveness check of the target's tmux session returns
NudgeProbe ==
    /\ nudgeCall.pc = "probe"
    /\ nudgeCall' =
         IF nudgeCall.tmuxAlive
         THEN [nudgeCall EXCEPT !.pc = "send", !.probes = @ + 1]
         ELSE [nudgeCall EXCEPT !.pc = "returned", !.probes = @ + 1,
                  !.result = [delivered |-> FALSE, reason |-> "not alive"]]
    /\ UNCHANGED <<now, alive, disk, tier1Enabled, tick, obs, runs, lastTriage,
                   sameTriage, triageThrew, daemon, activities>>

\* the message has been sent to the tmux session
NudgeSend ==
    /\ nudgeCall.pc = "send"
    /\ nudgeCall' = [nudgeCall EXCEPT !.pc = "returned", !.sent = @ + 1,
                        !.result = [delivered |-> TRUE, reason |-> ""]]
    /\ UNCHANGED <<now, alive, disk, tier1Enabled, tick, obs, runs, lastTriage,
                   sameTriage, triageThrew, daemon, activities>>

NextNudge ==
    \/ NudgeLookup
    \/ NudgeProbe
    \/ NudgeSend

SpecNudge == InitNudge /\ [][NextNudge]_vars

\* ------------------------------------------------------------- claims
Active == {"booting", "working"}
Cleared(r) == r.state = "zombie" /\ r.escalationLevel = 0 /\ r.stalledSince = Null
Loaded(t) == tick[t].pc \notin {"idle", "load"}

\* C1: a session's state only moves forward under ticks: every change of a
\* record's state, in the tick's array or in sessions.json, is from booting or
\* working to zombie, and a record that is zombie or completed when a tick
\* starts has the same state when the tick ends.
C1_DiskStep ==
    \A s \in Sessions :
        disk'[s].state # disk[s].state =>
            disk[s].state \in Active /\ disk'[s].state = "zombie"
C1_MemoryStep ==
    \A t \in Ticks :
        Loaded(t) /\ tick'[t].pc # "idle" =>
            \A s \in Sessions :
                tick'[t].sessions[s].state # tick[t].sessions[s].state =>
                    /\ tick[t].sessions[s].state \in Active
                    /\ tick'[t].sessions[s].state = "zombie"
C1_TerminalKept ==
    \A t \in Ticks :
        Ended(t) =>
            \A s \in Sessions :
                obs[t].startDisk[s].state \in {"zombie", "completed"} =>
                    disk[s].state = obs[t].startDisk[s].state
C1_StateOnlyMovesForward ==
    []C1_TerminalKept /\ [][C1_DiskStep /\ C1_MemoryStep]_vars
C1_Witness ==
    \E t \in Ticks, s \in Sessions :
        /\ tick[t].pc = "done" /\ obs[t].writes = 1
        /\ obs[t].startDisk[s].state \in Active
        /\ disk[s].state = "zombie"

\* C2 (as claimed): escalationLevel is 0 exactly when stalledSince is null.
C2_LevelZeroIffNotStalled ==
    \A s \in Sessions :
        (disk[s].escalationLevel = 0) <=> (disk[s].stalledSince = Null)
\* C2 (amended): whenever stalledSince is null, escalationLevel is 0; a stall
\* episode at level 0 has stalledSince set.
C2_NotStalledImpliesLevelZero ==
    \A s \in Sessions :
        disk[s].stalledSince = Null => disk[s].escalationLevel = 0
C2_Witness ==
    \E t \in Ticks, s \in Sessions :
        /\ tick[t].pc = "done" /\ obs[t].writes = 1
        /\ obs[t].startDisk[s].stalledSince # Null
        /\ obs[t].startDisk[s].escalationLevel > 0
        /\ disk[s].stalledSince = Null

C3_Target(stalledMs) ==
    IF stalledMs \div nudgeIntervalMs < 3 THEN stalledMs \div nudgeIntervalMs ELSE 3
\* C3 (as claimed): after every tick whose verdict for a session was escalate,
\* the recorded escalationLevel is min(floor(elapsed / nudgeIntervalMs), 3).
C3_RecordedLevelIsTarget ==
    \A t \in Ticks, s \in Sessions :
        tick[t].pc = "done" /\ obs[t].action[s] = "escalate" =>
            disk[s].escalationLevel = C3_Target(obs[t].stalledMs[s])
\* C3 (amended): the level a tick computes and acts on is
\* min(floor(elapsed / nudgeIntervalMs), 3); after the tick the record holds
\* that level with its state unchanged when the level is below 3 and triage did
\* not terminate, it is zombie with level 0 and stalledSince null when the
\* level reached 3 or triage was consulted, and it is as before the tick when
\* the tick was aborted; within a stall episode the recorded level never drops.
C3_ActedLevel ==
    \A t \in Ticks, s \in Sessions :
        obs[t].action[s] = "escalate" =>
            /\ obs[t].level[s] = C3_Target(obs[t].stalledMs[s])
            /\ tick[t].pc = "failed" => disk = obs[t].startDisk
            /\ tick[t].pc = "done" =>
                 \/ /\ obs[t].level[s] < 3
                    /\ disk[s].escalationLevel = obs[t].level[s]
                    /\ disk[s].stalledSince = now - obs[t].stalledMs[s]
                    /\ disk[s].state = obs[t].startDisk[s].state
                 \/ /\ obs[t].level[s] = 3 \/ obs[t].triages[s] = 1
                    /\ Cleared(disk[s])
C3_LevelStep ==
    \A s \in Sessions :
        disk[s].stalledSince # Null /\ disk'[s].stalledSince = disk[s].stalledSince =>
            disk'[s].escalationLevel >= disk[s].escalationLevel
C3_EscalationFollowsElapsedTime == []C3_ActedLevel /\ [][C3_LevelStep]_vars
C3_Witness ==
    \E t \in Ticks, s \in Sessions :
        /\ tick[t].pc = "done" /\ obs[t].action[s] = "escalate"
        /\ obs[t].stalledMs[s] = 5
        /\ obs[t].startDisk[s].escalationLevel = 0
        /\ disk[s].escalationLevel = 2

\* C4: no failure of killSession, nudge or triage aborts a tick: a tick never
\* rejects, it always goes on to the remaining sessions and its persistence step.
C4_CollaboratorFailuresAbsorbed ==
    \A t \in Ticks : tick[t].pc # "failed"

\* C5: at most one tick of a started daemon is in flight at any time.
C5_TicksNeverOverlap ==
    Cardinality({t \in Ticks : InFlight(t)}) <= 1

\* C6 (as claimed): a tick run again with the clock, liveness and lastActivity
\* unchanged since the previous tick started writes nothing and leaves
\* sessions.json as the previous tick left it (stated for runs in which no
\* triage call was rejected).
C6_SecondRunIsNoOp ==
    \A t \in Ticks :
        Ended(t) /\ runs = 2 /\ ~triageThrew =>
            obs[t].writes = 0 /\ disk = obs[t].startDisk
\* C6 (amended): the same, provided every triage call of the second run settles
\* as the previous call for that session did (same verdict, or failing again).
C6_SecondRunIsNoOpSameTriage ==
    \A t \in Ticks :
        Ended(t) /\ runs = 2 /\ sameTriage =>
            obs[t].writes = 0 /\ disk = obs[t].startDisk
C6_Witness ==
    \E t \in Ticks, s \in Sessions :
        /\ tick[t].pc = "done" /\ runs = 2 /\ sameTriage
        /\ obs[t].triages[s] = 1
        /\ obs[t].nudges[s] = 1
        /\ disk[s].escalationLevel = 2

\* C7: in every tick the observer fires exactly once for each session that is
\* not completed and never for a completed one.
C7_ObserverOncePerSession ==
    \A t \in Ticks :
        Ended(t) =>
            \A s \in Sessions :
                obs[t].observer[s] =
                    IF obs[t].startDisk[s].state = "completed" THEN 0 ELSE 1

\* C8: a tick writes sessions.json at most once, only when its pass is over,
\* and it writes exactly when the pass changed a field of some record.
C8_WritesIffChanged ==
    \A t \in Ticks :
        /\ obs[t].writes <= 1
        /\ obs[t].writes = 1 => tick[t].pc = "done"
        /\ Ended(t) => (obs[t].writes = 1 <=> tick[t].sessions # obs[t].startDisk)

\* C9: a tick never probes a completed session, never changes its record,
\* never reports it to the observer and never kills, nudges or triages it.
C9_CompletedUntouched ==
    \A t \in Ticks, s \in Sessions :
        InFlight(t) /\ obs[t].startDisk[s].state = "completed" =>
            /\ obs[t].probe[s] = "unprobed"
            /\ obs[t].observer[s] = 0
            /\ obs[t].kills[s] = 0 /\ obs[t].nudges[s] = 0 /\ obs[t].triages[s] = 0
            /\ Loaded(t) => tick[t].sessions[s] = obs[t].startDisk[s]
            /\ disk[s] = obs[t].startDisk[s]
C9_Witness ==
    \E t \in Ticks, s \in Sessions :
        /\ tick[t].pc = "done" /\ obs[t].writes = 1
        /\ obs[t].startDisk[s].state = "completed"
        /\ disk[s].state = "completed"

\* C10: for a zombie session whose probe returns alive the verdict is
\* investigate, the record is left as it was, and kill, nudge and triage are
\* not invoked, tick after tick.
C10_ZombieAliveOnlyReported ==
    \A t \in Ticks, s \in Sessions :
        obs[t].probe[s] = "alive" /\ obs[t].startDisk[s].state = "zombie" =>
            /\ obs[t].action[s] = "investigate"
            /\ obs[t].observer[s] = 1
            /\ obs[t].kills[s] = 0 /\ obs[t].nudges[s] = 0 /\ obs[t].triages[s] = 0
            /\ tick[t].sessions[s] = obs[t].startDisk[s]
            /\ disk[s] = obs[t].startDisk[s]
C10_Witness ==
    \E t \in Ticks, s \in Sessions :
        /\ tick[t].pc = "done" /\ runs = 2
        /\ obs[t].probe[s] = "alive"
        /\ obs[t].startDisk[s].state = "zombie"
        /\ obs[t].action[s] = "investigate"

\* C11 (as claimed): for a zombie session whose probe returns not-alive,
\* whatever its other fields, the verdict is none and the tick changes no field
\* of the record.
C11_ZombieDeadUntouched ==
    \A t \in Ticks, s \in Sessions :
        obs[t].probe[s] = "dead" /\ obs[t].startDisk[s].state = "zombie" =>
            /\ obs[t].action[s] = "none"
            /\ tick[t].sessions[s] = obs[t].startDisk[s]
            /\ disk[s] = obs[t].startDisk[s]
\* C11 (amended): for a zombie session whose probe returns not-alive the
\* verdict is none and no kill, nudge or triage is invoked; the tick changes no
\* field of the record when stalledSince is null, and when stalledSince is not
\* null it clears stalledSince and resets escalationLevel to 0 and changes
\* nothing else.
C11_ZombieDeadOnlyCleared ==
    \A t \in Ticks, s \in Sessions :
        obs[t].probe[s] = "dead" /\ obs[t].startDisk[s].state = "zombie" =>
            /\ obs[t].action[s] = "none"
            /\ obs[t].kills[s] = 0 /\ obs[t].nudges[s] = 0 /\ obs[t].triages[s] = 0
            /\ tick[t].sessions[s] =
                 IF obs[t].startDisk[s].stalledSince = Null
                 THEN obs[t].startDisk[s]
                 ELSE [obs[t].startDisk[s] EXCEPT !.stalledSince = Null,
                                                  !.escalationLevel = 0]
            /\ obs[t].startDisk[s].stalledSince # Null => tick[t].updated
            /\ tick[t].pc = "done" => disk[s] = tick[t].sessions[s]
            /\ tick[t].pc # "done" => disk[s] = obs[t].startDisk[s]
C11_Witness ==
    \E t \in Ticks, s \in Sessions :
        /\ tick[t].pc = "done"
        /\ obs[t].probe[s] = "dead" /\ obs[t].startDisk[s].state = "zombie"
        /\ obs[t].startDisk[s].stalledSince # Null
        /\ obs[t].startDisk[s].escalationLevel = 2
        /\ Cleared(disk[s])

\* C12: for a booting or working session whose probe returns not-alive the
\* verdict is terminate, kill is not invoked for it, and once the tick has
\* ended the registry holds the record as zombie with escalationLevel 0 and
\* stalledSince null; and kill is invoked for a session in a tick only if the
\* probe returned alive for it in that tick.
C12_DeadAgentBecomesZombie ==
    \A t \in Ticks, s \in Sessions :
        /\ obs[t].probe[s] = "dead" /\ obs[t].startDisk[s].state \in Active =>
              /\ obs[t].action[s] = "terminate"
              /\ obs[t].kills[s] = 0
              /\ Ended(t) => Cleared(disk[s])
        /\ obs[t].kills[s] > 0 => obs[t].probe[s] = "alive"
\* what C12 says does hold of the record the tick holds, and of sessions.json
\* after every tick that is not aborted
C12_DeadAgentBecomesZombieInTick ==
    \A t \in Ticks, s \in Sessions :
        /\ obs[t].probe[s] = "dead" /\ obs[t].startDisk[s].state \in Active =>
              /\ obs[t].action[s] = "terminate"
              /\ obs[t].kills[s] = 0
              /\ Cleared(tick[t].sessions[s])
              /\ tick[t].pc = "done" => Cleared(disk[s])
        /\ obs[t].kills[s] > 0 => obs[t].probe[s] = "alive"

\* C13: a session whose stalledSince is not null and whose verdict in a tick
\* is none has, once the tick has ended, stalledSince null and escalationLevel
\* 0 and its state unchanged in the registry, and no kill, nudge or triage was
\* invoked for it; a stall detected on a record whose stalledSince is null
\* starts at level 0 with stalledSince set to the current time.
C13_RecoveryResets ==
    \A t \in Ticks, s \in Sessions :
        /\ obs[t].action[s] = "none" /\ obs[t].startDisk[s].stalledSince # Null =>
              /\ obs[t].kills[s] = 0 /\ obs[t].nudges[s] = 0 /\ obs[t].triages[s] = 0
              /\ Ended(t) =>
                    /\ disk[s].stalledSince = Null
                    /\ disk[s].escalationLevel = 0
                    /\ disk[s].state = obs[t].startDisk[s].state
        /\ obs[t].action[s] = "escalate" /\ obs[t].startDisk[s].stalledSince = Null =>
              obs[t].level[s] = 0 /\ obs[t].stalledMs[s] = 0
\* what C13 says does hold of the record the tick holds, and of sessions.json
\* after every tick that is not aborted
C13_RecoveryResetsInTick ==
    \A t \in Ticks, s \in Sessions :
        /\ obs[t].action[s] = "none" /\ obs[t].startDisk[s].stalledSince # Null =>
              /\ obs[t].kills[s] = 0 /\ obs[t].nudges[s] = 0 /\ obs[t].triages[s] = 0
              /\ tick[t].sessions[s] =
                     [obs[t].startDisk[s] EXCEPT !.stalledSince = Null,
                                                 !.escalationLevel = 0]
              /\ tick[t].pc = "done" => disk[s] = tick[t].sessions[s]
        /\ obs[t].action[s] = "escalate" /\ obs[t].startDisk[s].stalledSince = Null =>
              obs[t].level[s] = 0 /\ obs[t].stalledMs[s] = 0

\* C14: a tick failure never ends the scheduling loop: from startDaemon until
\* stop is called the interval stays armed, whatever rejections have been
\* discarded, and every interval boundary the clock has passed has started its
\* tick; a failure itself never touches the timer.
C14_TimerArmed ==
    daemon.started /\ ~daemon.stopped =>
        daemon.active /\ now <= daemon.nextFire
C14_FailureKeepsTimer ==
    \A t \in Ticks :
        tick[t].pc = "failed" /\ tick'[t].pc = "idle" =>
            /\ daemon'.caught
            /\ daemon'.active = daemon.active
            /\ daemon'.nextFire = daemon.nextFire
C14_LoopSurvivesTickFailure ==
    []C14_TimerArmed /\ [][C14_FailureKeepsTimer]_vars
\* a tick has failed and been discarded, and the next interval has started a
\* new tick
C14_Witness ==
    /\ daemon.caught /\ daemon.active /\ ~daemon.stopped
    /\ now = MaxDaemonTime /\ daemon.nextFire > MaxDaemonTime
    /\ \E t \in Ticks : tick[t].pc = "load"
    /\ \A t \in Ticks : tick[t].pc \in {"idle", "load"}

\* C15: once stop has been called no tick is started and a further call of
\* stop changes nothing; a tick in flight when stop was called runs to
\* completion and writes the registry if it changed a record.
C15_NoTickAfterStop ==
    daemon.stopped =>
        /\ \A t \in Ticks : tick[t].pc = "idle" => tick'[t].pc = "idle"
        /\ ~daemon'.active /\ daemon'.stopped
        /\ daemon'.nextFire = daemon.nextFire
C15_InFlightTickCompletes ==
    \A t \in Ticks :
        daemon.stopped /\ Ended(t) =>
            /\ tick[t].pc = "done"
            /\ obs[t].writes = (IF tick[t].updated THEN 1 ELSE 0)
C15_StopCancelsFutureTicksOnly ==
    []C15_InFlightTickCompletes /\ [][C15_NoTickAfterStop]_vars
\* what C15 says of stop itself does hold, and a tick in flight at stop that
\* is not aborted does write what it changed
C15_StopHolds ==
    /\ [][C15_NoTickAfterStop]_vars
    /\ [](\A t \in Ticks :
            daemon.stopped /\ tick[t].pc = "done" =>
                obs[t].writes = (IF tick[t].updated THEN 1 ELSE 0))

\* C16: a session that is alive and stale and whose stall has lasted at least
\* 3 * nudgeIntervalMs when a tick runs reaches level 3 in that tick, kill is
\* invoked for it once, and once the tick has ended the registry holds it as
\* zombie with escalation fields cleared, whether or not triage is enabled and
\* whether or not the kill succeeded.
C16_DueForTermination(t, s) ==
    /\ obs[t].startDisk[s].state \in Active
    /\ obs[t].startDisk[s].stalledSince # Null
    /\ now - obs[t].startDisk[s].stalledSince >= 3 * nudgeIntervalMs
    /\ alive[s] \/ obs[t].kills[s] > 0
    /\ evaluateHealth(obs[t].startDisk[s], TRUE, now).action = "escalate"
C16_StalledSessionTerminated ==
    \A t \in Ticks, s \in Sessions :
        Ended(t) /\ C16_DueForTermination(t, s) =>
            /\ obs[t].level[s] = MAX_ESCALATION_LEVEL
            /\ obs[t].kills[s] = 1
            /\ Cleared(disk[s])
\* what C16 says does hold of every tick that is not aborted, and of every
\* tick that gets as far as the session
C16_StalledSessionTerminatedInTick ==
    \A t \in Ticks, s \in Sessions :
        InFlight(t) /\ C16_DueForTermination(t, s) =>
            /\ tick[t].pc = "done" =>
                  /\ obs[t].level[s] = MAX_ESCALATION_LEVEL
                  /\ obs[t].kills[s] = 1
                  /\ Cleared(disk[s])
            /\ obs[t].action[s] # "unseen" =>
                  /\ obs[t].action[s] = "escalate"
                  /\ obs[t].level[s] = MAX_ESCALATION_LEVEL
                  /\ obs[t].triages[s] = 0 /\ obs[t].nudges[s] = 0
                  /\ obs[t].kills[s] = 1 => Cleared(tick[t].sessions[s])

\* C17: nudgeAgent delivers only to an agent that has a booting or working
\* record: with the registry missing, with no record of that name, or with only
\* zombie or completed records of that name it returns delivered=false with
\* the reason "No active session" and neither probes nor sends; with a booting
\* or working record whose tmux session is not alive it returns delivered=false
\* with the reason "not alive" and sends nothing.
C17_HasActiveRecord ==
    /\ nudgeCall.file.exists
    /\ \E i \in DOMAIN nudgeCall.file.sessions :
          /\ nudgeCall.file.sessions[i].agentName = nudgeCall.agentName
          /\ nudgeCall.file.sessions[i].state \in Active
C18_LevelActedOn(r) ==
    LET started == StartStall(r, now)
        expected == expectedLevel(started, now - started.stalledSince)
    IN IF ShouldRaise(expected, started.escalationLevel)
       THEN expected ELSE started.escalationLevel
C18_DueForTriage(t, s) ==
    /\ tier1Enabled
    /\ obs[t].startDisk[s].state \in Active
    /\ alive[s] \/ obs[t].kills[s] > 0
    /\ evaluateHealth(obs[t].startDisk[s], TRUE, now).action = "escalate"
    /\ C18_LevelActedOn(obs[t].startDisk[s]) = 2
\* C18: at level 2 with triage enabled a tick calls triage once for the
\* session, with its recorded lastActivity, and acts on the verdict: terminate,
\* kill is invoked once and the registry then holds the record as zombie with
\* escalation fields cleared; retry, one nudge and no kill, state and level 2
\* kept; extend, no nudge and no kill, state and level 2 kept.
C18_TriageVerdictActedOn ==
    \A t \in Ticks, s \in Sessions :
        Ended(t) /\ C18_DueForTriage(t, s) =>
            /\ obs[t].triages[s] = 1
            /\ obs[t].triageArg[s] = obs[t].startDisk[s].lastActivity
            /\ lastTriage[s] = "terminate" =>
                  obs[t].kills[s] = 1 /\ Cleared(disk[s])
            /\ lastTriage[s] = "retry" =>
                  /\ obs[t].nudges[s] = 1 /\ obs[t].kills[s] = 0
                  /\ disk[s].state = obs[t].startDisk[s].state
                  /\ disk[s].escalationLevel = 2
            /\ lastTriage[s] = "extend" =>
                  /\ obs[t].nudges[s] = 0 /\ obs[t].kills[s] = 0
                  /\ disk[s].state = obs[t].startDisk[s].state
                  /\ disk[s].escalationLevel = 2
\* what C18 says does hold of every tick that gets as far as the session, for
\* the record the tick holds, and of sessions.json after every tick that is
\* not aborted
C18_TriageVerdictActedOnInTick ==
    \A t \in Ticks, s \in Sessions :
        /\ InFlight(t) /\ C18_DueForTriage(t, s)
        /\ \/ tick[t].pc = "done"
           \/ tick[t].pc \in {"probe", "save", "failed"} /\ obs[t].triages[s] = 1
              /\ lastTriage[s] # "throws"
        => /\ obs[t].triages[s] = 1
           /\ obs[t].triageArg[s] = obs[t].startDisk[s].lastActivity
           /\ lastTriage[s] = "terminate" =>
                 obs[t].kills[s] = 1 /\ Cleared(tick[t].sessions[s])
           /\ lastTriage[s] = "retry" =>
                 /\ obs[t].nudges[s] = 1 /\ obs[t].kills[s] = 0
                 /\ tick[t].sessions[s].state = obs[t].startDisk[s].state
                 /\ tick[t].sessions[s].escalationLevel = 2
           /\ lastTriage[s] = "extend" =>
                 /\ obs[t].nudges[s] = 0 /\ obs[t].kills[s] = 0
                 /\ tick[t].sessions[s].state = obs[t].startDisk[s].state
                 /\ tick[t].sessions[s].escalationLevel = 2
           /\ tick[t].pc = "done" => disk[s] = tick[t].sessions[s]

\* C19: with triage disabled, a tick that finds a session alive and stale with
\* an elapsed stall time in [2 * nudgeIntervalMs, 3 * nudgeIntervalMs) sets its
\* escalationLevel to 2, from 0 or from 1, invokes neither triage nor nudge nor
\* kill for it, and leaves its state unchanged.
C19_Due(t, s) ==
    /\ ~tier1Enabled
    /\ obs[t].startDisk[s].state \in Active
    /\ obs[t].startDisk[s].stalledSince # Null
    /\ now - obs[t].startDisk[s].stalledSince >= 2 * nudgeIntervalMs
    /\ now - obs[t].startDisk[s].stalledSince < 3 * nudgeIntervalMs
    /\ alive[s]
    /\ evaluateHealth(obs[t].startDisk[s], TRUE, now).action = "escalate"
C19_LevelTwoWithoutTriage ==
    \A t \in Ticks, s \in Sessions :
        InFlight(t) /\ C19_Due(t, s) =>
            /\ obs[t].triages[s] = 0 /\ obs[t].nudges[s] = 0 /\ obs[t].kills[s] = 0
            /\ obs[t].action[s] # "unseen" =>
                  /\ obs[t].action[s] = "escalate"
                  /\ obs[t].level[s] = 2
                  /\ tick[t].sessions[s] =
                        [obs[t].startDisk[s] EXCEPT !.escalationLevel = 2]
            /\ Ended(t) =>
                  /\ tick[t].pc = "done"
                  /\ disk[s] = [obs[t].startDisk[s] EXCEPT !.escalationLevel = 2]
C19_Witness ==
    \E t \in Ticks, s \in Sessions :
        /\ tick[t].pc = "done" /\ C19_Due(t, s)
        /\ obs[t].stalledMs[s] = 5
        /\ obs[t].startDisk[s].escalationLevel = 0
        /\ disk[s].escalationLevel = 2 /\ disk[s].state = "working"

\* C20: on the tick that first detects a stall (an alive booting or working
\* session with stalledSince null whose verdict is escalate), once the tick has
\* ended the registry has been written and holds the record with stalledSince
\* set to the tick's current time, escalationLevel 0 and the state unchanged,
\* and no kill, nudge or triage was invoked for the session.
C20_FirstDetection(t, s) ==
    /\ obs[t].startDisk[s].state \in Active
    /\ obs[t].startDisk[s].stalledSince = Null
    /\ alive[s]
    /\ now - obs[t].startDisk[s].lastActivity >= staleThresholdMs
    /\ now - obs[t].startDisk[s].lastActivity < zombieThresholdMs
C20_StallEpisodeStarts ==
    \A t \in Ticks, s \in Sessions :
        Ended(t) /\ C20_FirstDetection(t, s) =>
            /\ obs[t].action[s] = "escalate"
            /\ obs[t].kills[s] = 0 /\ obs[t].nudges[s] = 0 /\ obs[t].triages[s] = 0
            /\ obs[t].writes = 1
            /\ disk[s].stalledSince = now
            /\ disk[s].escalationLevel = 0
            /\ disk[s].state = obs[t].startDisk[s].state
\* what C20 says does hold of every tick that gets as far as the session, for
\* the record the tick holds, and of sessions.json after every tick that is
\* not aborted
C20_StallEpisodeStartsInTick ==
    \A t \in Ticks, s \in Sessions :
        InFlight(t) /\ C20_FirstDetection(t, s) =>
            /\ obs[t].kills[s] = 0 /\ obs[t].nudges[s] = 0 /\ obs[t].triages[s] = 0
            /\ obs[t].action[s] # "unseen" =>
                  /\ obs[t].action[s] = "escalate"
                  /\ tick[t].updated
                  /\ tick[t].sessions[s] =
                        [obs[t].startDisk[s] EXCEPT !.stalledSince = now,
                                                    !.escalationLevel = 0]
            /\ tick[t].pc = "done" =>
                  obs[t].writes = 1 /\ disk[s] = tick[t].sessions[s]

\* C21: for an alive booting or working session silent for at least
\* zombieThresholdMs the verdict is terminate whatever its escalationLevel and
\* stalledSince: the tick invokes kill once and neither nudge nor triage for
\* it, and once the tick has ended the registry holds the record as zombie
\* with escalationLevel 0 and stalledSince null.
C21_SilentTooLong(t, s) ==
    /\ obs[t].startDisk[s].state \in Active
    /\ alive[s] \/ obs[t].kills[s] > 0
    /\ now - obs[t].startDisk[s].lastActivity >= zombieThresholdMs
C21_LongSilenceTerminates ==
    \A t \in Ticks, s \in Sessions :
        Ended(t) /\ C21_SilentTooLong(t, s) =>
            /\ obs[t].action[s] = "terminate"
            /\ obs[t].kills[s] = 1
            /\ obs[t].nudges[s] = 0 /\ obs[t].triages[s] = 0
            /\ Cleared(disk[s])
\* what C21 says does hold of every tick that gets as far as the session, for
\* the record the tick holds, and of sessions.json after every tick that is
\* not aborted
C21_LongSilenceTerminatesInTick ==
    \A t \in Ticks, s \in Sessions :
        InFlight(t) /\ C21_SilentTooLong(t, s) =>
            /\ obs[t].nudges[s] = 0 /\ obs[t].triages[s] = 0
            /\ obs[t].action[s] # "unseen" => obs[t].action[s] = "terminate"
            /\ obs[t].kills[s] = 1 => Cleared(tick[t].sessions[s])
            /\ tick[t].pc = "done" => obs[t].kills[s] = 1 /\ Cleared(disk[s])

\* a record with the three fields a tick may write blanked out
C22_Frame(r) ==
    [r EXCEPT !.state = "", !.escalationLevel = 0, !.stalledSince = Null]
C22_SameRecords(before, after) ==
    /\ DOMAIN after = DOMAIN before
    /\ \A s \in DOMAIN before : C22_Frame(after[s]) = C22_Frame(before[s])
\* C22: a tick never creates or deletes records and changes no field other
\* than state, escalationLevel and stalledSince: every write of a tick, and the
\* registry when the tick has ended, holds the same records in the same order
\* as before, with id, agentName, lastActivity and every other field unchanged.
C22_TickEndFrame ==
    \A t \in Ticks :
        /\ Loaded(t) => C22_SameRecords(obs[t].startDisk, tick[t].sessions)
        /\ Ended(t) => C22_SameRecords(obs[t].startDisk, disk)
C22_WriteFrame ==
    activities' = activities => C22_SameRecords(disk, disk')
C22_TickKeepsRecords ==
    []C22_TickEndFrame /\ [][C22_WriteFrame]_vars
C22_Witness ==
    \E t \in Ticks, s \in Sessions :
        /\ tick[t].pc = "done" /\ obs[t].writes = 1
        /\ obs[t].startDisk[s].lastActivity > 0
        /\ disk[s].lastActivity = obs[t].startDisk[s].lastActivity
        /\ disk[s].agentName = s
        /\ disk[s].state = "zombie" /\ obs[t].startDisk[s].state = "working"
        /\ obs[t].startDisk[s].stalledSince # Null

\* C23: under every interleaving of the ticks of one daemon, once sessions.json
\* records a session as zombie with escalationLevel 0 and stalledSince null, no
\* later write by a tick of that daemon records it as booting or working again
\* or restores its stalledSince or escalationLevel.
C23_ZombieStaysWritten ==
    \A s \in Sessions : Cleared(disk[s]) => Cleared(disk'[s])
C23_PersistedChangeNeverUndone ==
    [][daemon.started => C23_ZombieStaysWritten]_vars
\* the same loss without two writes in flight at once: a tick suspended at its
\* nudge or triage call still holds the session as booting or working, and
\* will save it, after another tick has written it as zombie
C23_StaleTickAwaitingCollaborator ==
    \E t \in Ticks, s \in Sessions :
        /\ daemon.started
        /\ tick[t].pc \in {"nudge", "triage"} /\ tick[t].i = s
        /\ tick[t].updated
        /\ tick[t].sessions[s].state \in Active
        /\ tick[t].sessions[s].stalledSince # Null
        /\ Cleared(disk[s])

\* what C7 and C8 say does hold of every tick that is not aborted
CompletedTickObservedAndSaved ==
    \A t \in Ticks :
        tick[t].pc = "done" =>
            /\ \A s \in Sessions :
                 obs[t].observer[s] =
                     IF obs[t].startDisk[s].state = "completed" THEN 0 ELSE 1
            /\ obs[t].writes = 1 <=> tick[t].sessions # obs[t].startDisk
            /\ disk = tick[t].sessions

TypeOK ==
    /\ now \in 0..MaxTime
    /\ \A s \in Sessions :
         /\ disk[s].state \in States
         /\ disk[s].escalationLevel \in 0..MAX_ESCALATION_LEVEL
         /\ disk[s].stalledSince \in {Null} \cup 0..MaxTime
====
